---- MODULE Spec2Model ----
(***************************************************************************)
(* Model of the 2Day2Do single-page to-do application (src/src/src/App.tsx)*)
(* together with the row-level-security policies of its tasks table        *)
(* (src/supabase/migrations/20250407143902_shy_castle.sql).                *)
(*                                                                         *)
(* The React component App is a state machine: its useState cells are the  *)
(* variables, every event handler is an action, and every `await` splits a *)
(* handler in two: the part that issues the request, and the continuation  *)
(* that runs when the response is delivered.  The store processes a        *)
(* request when it is issued; its response may be delivered after any      *)
(* number of other steps, and responses may overtake each other.  A        *)
(* handler is a closure of the render in which the event happened, so its  *)
(* continuation reads the values of tasks, selectedTask and user captured  *)
(* at the call, not the current ones: every in-flight operation carries    *)
(* those captured values.                                                  *)
(*                                                                         *)
(* viewMode only hides or shows panels and can be cycled freely without    *)
(* any other effect, so the model leaves it out and treats both panels as  *)
(* reachable whenever the task view is rendered.                           *)
(***************************************************************************)
EXTENDS Integers, Sequences, FiniteSets, TLC

\* ---------------------------------------------------------------- bounds
\* Number of rows created in one run (ids 1..MaxTasks): the runs stop adding
\* tasks there; the store itself has no limit.
MaxTasks == 3
\* Number of handler invocations that may be awaiting a response at once.
MaxInFlight == 2
\* Number of rows created in the runs of all data operations of one identity.
MaxDataTasks == 2
\* Number of rows created in the runs with two identities.
MaxSharedTasks == 2
\* Number of rows created in the runs that toggle the sort.
MaxSortTasks == 2
\* Number of rows created in the runs of the authentication handlers.
MaxAuthTasks == 1
\* Number of rows created in the runs that edit notes.
MaxNotesTasks == 1
\* Number of rows created in the runs that drag tasks.
MaxDragTasks == 3
\* Number of rows created in the runs of overlapping operations that all succeed.
MaxOverlapTasks == 2
\* Number of rows created in the runs of overlapping list requests.
MaxRefetchTasks == 2
\* Number of rows created in the runs of the prev / next buttons.
MaxNavTasks == 3
\* Largest age, in minutes, whose label is computed (61 days and a half).
MaxMinutes == 88560

\* ------------------------------------------------------------ value sets
None == "none"
Users == {"A", "B"}
\* Outcomes of an authentication call other than a session for an identity:
\* None is an error reported by the provider, Throws a call that rejects with
\* an exception, Unconfirmed a sign-up accepted without a session.
Throws == "throws"
Unconfirmed == "unconfirmed"
\* error.message of the provider's errors, the message of a thrown exception,
\* and the text handleSignIn / handleSignUp show for a thrown exception.
SignInMessage == "Invalid login credentials"
SignUpMessage == "User already registered"
ThrownMessage == "Failed to fetch"
Unexpected == "An unexpected error occurred"
Sp == " "
\* Contents of the new-task input: empty, whitespace only, a label.
Texts == {<<>>, <<Sp>>, <<"a">>}
\* Contents of the notes textarea.
NoteVals == {"", "n"}
\* Contents of the notes textarea in the runs that edit notes.
NoteEdits == {"", "n", "m"}
Slots == 1..MaxInFlight

\* -------------------------------------------------------- pure functions
\* String.prototype.trim: strip leading and trailing whitespace.
RECURSIVE TrimLeft(_)
TrimLeft(s) == IF s # <<>> /\ Head(s) = Sp THEN TrimLeft(Tail(s)) ELSE s

RECURSIVE TrimRight(_)
TrimRight(s) ==
    IF s # <<>> /\ s[Len(s)] = Sp THEN TrimRight(SubSeq(s, 1, Len(s) - 1)) ELSE s

Trim(s) == TrimRight(TrimLeft(s))

\* Array.prototype.findIndex on task.id, 0-based, -1 when absent.
FindIndex(ts, id) ==
    IF \E i \in 1..Len(ts) : ts[i].id = id
    THEN (CHOOSE i \in 1..Len(ts) :
            ts[i].id = id /\ \A j \in 1..(i - 1) : ts[j].id # id) - 1
    ELSE -1

\* Array.prototype.filter(task => task.id !== id).
RECURSIVE FilterOut(_, _)
FilterOut(ts, id) ==
    IF ts = <<>> THEN <<>>
    ELSE IF Head(ts).id = id THEN FilterOut(Tail(ts), id)
    ELSE <<Head(ts)>> \o FilterOut(Tail(ts), id)

\* tasks.map(task => task.id === id ? {...task, notes} : task).
MapNotes(ts, id, n) ==
    [i \in 1..Len(ts) |-> IF ts[i].id = id THEN [ts[i] EXCEPT !.notes = n] ELSE ts[i]]

\* Remove the element at 0-based index from (splice(from, 1)).
RemoveAt(ts, from) == SubSeq(ts, 1, from) \o SubSeq(ts, from + 2, Len(ts))

\* Insert x so that it sits at 0-based index to (splice(to, 0, x)).
InsertAt(ts, to, x) == SubSeq(ts, 1, to) \o <<x>> \o SubSeq(ts, to + 1, Len(ts))

\* ArrayMove that corrects the target index for the element taken out before it.
ArrayMove_ShiftedTarget(ts, from, to) ==
    InsertAt(RemoveAt(ts, from), IF from < to THEN to - 1 ELSE to, ts[from + 1])

\* arrayMove of @dnd-kit/sortable: copy, take the element out, put it back at to.
ArrayMove(ts, from, to) == InsertAt(RemoveAt(ts, from), to, ts[from + 1])

\* The template literal `${n} ${unit}${n === 1 ? '' : 's'} ago`, as its parts.
Ago(n, unit) == <<n, unit, IF n = 1 THEN "" ELSE "s", "ago">>

JustNow == <<"Just now">>

\* FormatTaskAge whose first test is diffMinutes <= 60.
FormatTaskAge_InclusiveHour(diffMinutes) ==
    IF diffMinutes <= 60
    THEN IF diffMinutes < 1 THEN JustNow ELSE Ago(diffMinutes, "minute")
    ELSE LET diffHours == diffMinutes \div 60
         IN  IF diffHours < 24
             THEN Ago(diffHours, "hour")
             ELSE LET diffDays == diffHours \div 24
                  IN  IF diffDays < 30
                      THEN Ago(diffDays, "day")
                      ELSE Ago(diffDays \div 30, "month")

\* formatTaskAge from diffMinutes on, the whole number of minutes between
\* createdAt and now.
FormatTaskAge(diffMinutes) ==
    IF diffMinutes < 60
    THEN IF diffMinutes < 1 THEN JustNow ELSE Ago(diffMinutes, "minute")
    ELSE LET diffHours == diffMinutes \div 60
         IN  IF diffHours < 24
             THEN Ago(diffHours, "hour")
             ELSE LET diffDays == diffHours \div 24
                  IN  IF diffDays < 30
                      THEN Ago(diffDays, "day")
                      ELSE Ago(diffDays \div 30, "month")

\* ------------------------------------------------------------- the store
\* Row-level-security policies of public.tasks; uid is auth.uid() of the
\* request, None for a request without a session (role anon).
\* PolicySelect without its USING clause: any signed-in identity reads any row.
PolicySelect_Open(uid, r) == uid # None

PolicySelect(uid, r) == uid # None /\ uid = r.user_id

PolicyInsert(uid, r) == uid # None /\ uid = r.user_id

PolicyUpdate(uid, r) == uid # None /\ uid = r.user_id

\* PolicyDelete without its USING clause: any signed-in identity deletes any row.
PolicyDelete_Open(uid, r) == uid # None

PolicyDelete(uid, r) == uid # None /\ uid = r.user_id

\* Column constraints: text NOT NULL CHECK (text <> ''), CHECK (priority >= 0).
RowChecks(r) == r.text # <<>> /\ r.priority >= 0

SortKey(r, field) == IF field = "priority" THEN r.priority ELSE r.created_at

\* The sequences a select ... order by field can return for the row set S:
\* every arrangement that is ordered on the key (ties in any order).
Ordered(S, field, asc) ==
    {s \in [1..Cardinality(S) -> S] :
        /\ \A i, j \in 1..Cardinality(S) : i # j => s[i] # s[j]
        /\ \A i, j \in 1..Cardinality(S) :
              i < j => IF asc THEN SortKey(s[i], field) <= SortKey(s[j], field)
                             ELSE SortKey(s[i], field) >= SortKey(s[j], field)}

\* ----------------------------------------------------------------- state
VARIABLES
    store,          \* rows of public.tasks
    nextId,         \* next id / creation time the store assigns
    session,        \* identity of the client's session (auth.uid() of a request)
    user,           \* useState user
    loading,        \* useState loading
    authError,      \* useState authError
    tasks,          \* useState tasks
    newTask,        \* useState newTask
    selectedTask,   \* useState selectedTask
    notes,          \* useState notes
    sortType,       \* useState sortType
    sortOrder,      \* useState sortOrder
    ops,            \* handler invocations awaiting a response, by slot
    last            \* the step taken last (history)

vars == <<store, nextId, session, user, loading, authError, tasks, newTask,
          selectedTask, notes, sortType, sortOrder, ops, last>>

authVars == <<session, user, loading, authError>>
sortVars == <<sortType, sortOrder>>
storeVars == <<store, nextId>>

\* selectedTask = null.
NoTask == [id |-> 0, text |-> <<>>, notes |-> "", priority |-> 0,
           user_id |-> None, created_at |-> 0]

\* A free slot.  An invocation in flight holds the response it will receive
\* (ok, res) and what its continuation reads: the tasks, selectedTask (sel)
\* and arguments (id, note, idx, cred) of the render that called it.
NoOp == [kind |-> "idle", ok |-> FALSE, res |-> <<>>, tasks |-> <<>>,
         sel |-> NoTask, id |-> 0, note |-> "", idx |-> 0, cred |-> None]

Free(s) == ops[s].kind = "idle"

\* The slot a new invocation takes.
FreeSlot == CHOOSE s \in Slots : Free(s) /\ \A t \in Slots : Free(t) => s <= t

HasFree == \E s \in Slots : Free(s)

Quiet == \A s \in Slots : Free(s)

\* No request other than a sign-out is awaiting its response.
NoData == \A s \in Slots : ops[s].kind \in {"idle", "signout"}

\* No list request is awaiting its response.
NoFetch == \A s \in Slots : ops[s].kind # "fetch"

\* No insert is awaiting its response.
NoAdd == \A s \in Slots : ops[s].kind # "add"

\* What a step was: the handler part that ran and the task id of the request
\* it issued or completed (0 when it names none).
Ev(e, id) == [ev |-> e, id |-> id]

\* The component renders the task view (neither Loading... nor the sign-in form).
TaskView == ~loading /\ user # None

\* The component renders the sign-in form.
SignInForm == ~loading /\ user = None

Init ==
    /\ store = {}
    /\ nextId = 1
    /\ session = None
    /\ user = None
    /\ loading = TRUE
    /\ authError = ""
    /\ tasks = <<>>
    /\ newTask = <<>>
    /\ selectedTask = NoTask
    /\ notes = ""
    /\ sortType = "priority"
    /\ sortOrder = "asc"
    /\ ops = [s \in Slots |-> NoOp]
    /\ last = Ev("init", 0)

\* ------------------------------------------------------- the notes panel
\* showRawMarkdown only chooses which of the two renderings of the notes
\* buffer is shown and can be switched freely, so both are defined in every
\* state that has a selected task.
Placeholder == "*No notes yet. Click the \"Raw mode\" button to start editing.*"

\* The markdown source of the rendered mode: notes || placeholder.
RenderedMarkdown == IF notes = "" THEN Placeholder ELSE notes

\* The value of the raw mode's textarea.
RawField == notes

\* ------------------------------------------------- requests to the store
\* select * from tasks order by field: the rows the read policy lets through,
\* in one of the orders the sort allows.
SelectRows(uid, field, asc) ==
    Ordered({r \in store : PolicySelect(uid, r)}, field, asc)

\* The row insert {text, notes, priority, user_id} creates.
NewRow(text, n, priority, uid) ==
    [id |-> nextId, text |-> text, notes |-> n, priority |-> priority,
     user_id |-> uid, created_at |-> nextId]

\* Whether the store accepts the insert of row by uid.
InsertAccepted(uid, row) == PolicyInsert(uid, row) /\ RowChecks(row)

\* The rows left by delete where id = X issued by uid; a request that matches
\* no row is no error.
DeleteRows(uid, id) == {r \in store : ~(r.id = id /\ PolicyDelete(uid, r))}

\* The rows left by update set field = val where id = X issued by uid: the
\* row is changed if the policy lets the old row (USING) and the new row
\* (WITH CHECK) through; a request that matches no row is no error.
UpdateRows(uid, id, field, val) ==
    {IF r.id = id /\ PolicyUpdate(uid, r) /\ PolicyUpdate(uid, [r EXCEPT ![field] = val])
        THEN [r EXCEPT ![field] = val] ELSE r : r \in store}

\* update {notes} where id = X.
UpdateNotesRows(uid, id, n) == UpdateRows(uid, id, "notes", n)

\* update {priority} where id = X.
UpdatePriorityRows(uid, id, p) == UpdateRows(uid, id, "priority", p)

\* FetchTasks that tests the user of the render before the one that calls it.
FetchTasks_StaleUser(slot, u, uid, st, so, net) ==
    IF user = None
    THEN ops' = [ops EXCEPT ![slot] = NoOp]
    ELSE \E res \in IF net
                    THEN SelectRows(uid, IF st = "priority" THEN "priority" ELSE "created_at",
                                    so = "asc")
                    ELSE {<<>>} :
            ops' = [ops EXCEPT ![slot] = [NoOp EXCEPT !.kind = "fetch", !.ok = net, !.res = res]]

\* fetchTasks up to its await: returns at once without a user, else issues the
\* list request ordered by the render's sortType and sortOrder.  net is
\* whether the request goes through.
FetchTasks(slot, u, uid, st, so, net) ==
    IF u = None
    THEN ops' = [ops EXCEPT ![slot] = NoOp]
    ELSE \E res \in IF net
                    THEN SelectRows(uid, IF st = "priority" THEN "priority" ELSE "created_at",
                                    so = "asc")
                    ELSE {<<>>} :
            ops' = [ops EXCEPT ![slot] = [NoOp EXCEPT !.kind = "fetch", !.ok = net, !.res = res]]

\* ------------------------------------------------------------------ auth
\* onAuthStateChange callback: setUser(session?.user ?? null); setLoading(false);
\* the effect on [user, sortType, sortOrder] then calls fetchTasks if user is set.
OnAuthStateChange(slot, net) ==
    /\ user' = session'
    /\ loading' = FALSE
    /\ FetchTasks(slot, session', session', sortType, sortOrder, net)

\* The subscription's first event, with the session the client starts with.
InitialSession(net) ==
    /\ loading
    /\ Quiet
    /\ session' = session
    /\ OnAuthStateChange(FreeSlot, net)
    /\ last' = Ev("initialSession", 0)
    /\ UNCHANGED <<storeVars, authError, tasks, newTask, selectedTask, notes, sortVars>>

\* An identity-state change that does not come from a call of this component
\* (the client library also reports the sign-ins, sign-outs and token
\* refreshes of other tabs on the same session storage): the subscription's
\* callback runs with the new session.
AuthEvent(sess, net) ==
    /\ ~(loading /\ Quiet)
    /\ sess # None \/ session # None
    /\ HasFree
    /\ session' = sess
    /\ OnAuthStateChange(FreeSlot, net)
    /\ last' = Ev("authEvent", 0)
    /\ UNCHANGED <<storeVars, authError, tasks, newTask, selectedTask, notes, sortVars>>

\* The message the call started with outcome cred reports or throws.
AuthMessage(cred, message) ==
    IF cred = None THEN message ELSE IF cred = Throws THEN ThrownMessage ELSE ""

\* handleSignIn up to its await; cred is the identity the typed credentials
\* belong to, None for credentials the provider rejects, Throws for a call
\* that throws.  The invocation keeps the message of its response in note.
HandleSignIn(cred) ==
    /\ SignInForm
    /\ HasFree
    /\ loading' = TRUE
    /\ authError' = ""
    /\ ops' = [ops EXCEPT ![FreeSlot] =
                 [NoOp EXCEPT !.kind = "signin", !.cred = cred,
                              !.note = AuthMessage(cred, SignInMessage)]]
    /\ last' = Ev("signInCall", 0)
    /\ UNCHANGED <<storeVars, session, user, tasks, newTask, selectedTask, notes, sortVars>>

\* handleSignUp up to its await; cred is the identity of the account created
\* with a session, Unconfirmed for an account created without a session, None
\* for a sign-up the provider rejects, Throws for a call that throws.
HandleSignUp(cred) ==
    /\ SignInForm
    /\ HasFree
    /\ loading' = TRUE
    /\ authError' = ""
    /\ ops' = [ops EXCEPT ![FreeSlot] =
                 [NoOp EXCEPT !.kind = "signup", !.cred = cred,
                              !.note = AuthMessage(cred, SignUpMessage)]]
    /\ last' = Ev("signUpCall", 0)
    /\ UNCHANGED <<storeVars, session, user, tasks, newTask, selectedTask, notes, sortVars>>

\* The continuation of handleSignIn / handleSignUp in slot s, ev naming the
\* handler: on success the client has stored the session and notified the
\* subscription before the handler continues; on an error setAuthError(error.message);
\* on an exception setAuthError('An unexpected error occurred'); finally
\* setLoading(false).
AuthDone(s, net, ev) ==
    /\ IF ops[s].cred \in Users
       THEN /\ session' = ops[s].cred
            /\ OnAuthStateChange(s, net)
            /\ authError' = authError
            /\ last' = Ev(ev \o "Ok", 0)
       ELSE /\ authError' = IF ops[s].cred = None THEN ops[s].note
                            ELSE IF ops[s].cred = Throws THEN Unexpected
                            ELSE authError
            /\ loading' = FALSE
            /\ ops' = [ops EXCEPT ![s] = NoOp]
            /\ last' = Ev(ev \o (IF ops[s].cred = Unconfirmed THEN "Pending" ELSE "Fail"), 0)
            /\ UNCHANGED <<session, user>>
    /\ UNCHANGED <<storeVars, tasks, newTask, selectedTask, notes, sortVars>>

\* SignInDone whose setLoading(false) is not in a finally block: it is
\* skipped when the attempt fails.
SignInDone_NoFinally(s, net) ==
    /\ ops[s].kind = "signin"
    /\ IF ops[s].cred \in Users
       THEN /\ session' = ops[s].cred
            /\ OnAuthStateChange(s, net)
            /\ authError' = authError
            /\ last' = Ev("signInOk", 0)
       ELSE /\ authError' = IF ops[s].cred = None THEN ops[s].note ELSE Unexpected
            /\ loading' = loading
            /\ ops' = [ops EXCEPT ![s] = NoOp]
            /\ last' = Ev("signInFail", 0)
            /\ UNCHANGED <<session, user>>
    /\ UNCHANGED <<storeVars, tasks, newTask, selectedTask, notes, sortVars>>

\* signInWithPassword resolves.
SignInDone(s, net) == ops[s].kind = "signin" /\ AuthDone(s, net, "signIn")

\* signUp resolves.
SignUpDone(s, net) == ops[s].kind = "signup" /\ AuthDone(s, net, "signUp")

\* Sign Out button: the click starts supabase.auth.signOut() and returns;
\* nothing changes until the call resolves.  net is whether the request goes
\* through.
SignOut(net) ==
    /\ TaskView
    /\ HasFree
    /\ ops' = [ops EXCEPT ![FreeSlot] = [NoOp EXCEPT !.kind = "signout", !.ok = net]]
    /\ last' = Ev("signOutCall", 0)
    /\ UNCHANGED <<storeVars, authVars, tasks, newTask, selectedTask, notes, sortVars>>

\* signOut() resolves: on success the client drops the session and notifies
\* the subscription; on an error the session stays and nothing is notified.
\* The click handler does not look at the result.
SignOutDone(s) ==
    /\ ops[s].kind = "signout"
    /\ IF ops[s].ok
       THEN /\ session' = None
            /\ OnAuthStateChange(s, TRUE)
            /\ last' = Ev("signOut", 0)
       ELSE /\ ops' = [ops EXCEPT ![s] = NoOp]
            /\ last' = Ev("signOutFail", 0)
            /\ UNCHANGED <<session, user, loading>>
    /\ UNCHANGED <<storeVars, authError, tasks, newTask, selectedTask, notes, sortVars>>

\* ------------------------------------------------- handlers up to the await
\* onChange of the new-task input.
SetNewTask(t) ==
    /\ TaskView
    /\ newTask' = t
    /\ last' = Ev("setNewTask", 0)
    /\ UNCHANGED <<storeVars, authVars, tasks, selectedTask, notes, sortVars, ops>>

\* addTask: returns at once on blank text or no user, else issues the insert
\* of {text: newTask, notes: '', priority: tasks.length, user_id: user.id}.
AddTask(net) ==
    /\ TaskView
    /\ IF Trim(newTask) = <<>> \/ user = None
       THEN /\ last' = Ev("addSkip", 0)
            /\ UNCHANGED <<ops, storeVars>>
       ELSE /\ HasFree
            /\ LET row == NewRow(newTask, "", Len(tasks), user)
                   ok == net /\ InsertAccepted(session, row)
               IN  /\ store' = IF ok THEN store \cup {row} ELSE store
                   /\ nextId' = IF ok THEN nextId + 1 ELSE nextId
                   /\ ops' = [ops EXCEPT ![FreeSlot] =
                                [NoOp EXCEPT !.kind = "add", !.ok = ok,
                                             !.res = IF ok THEN <<row>> ELSE <<>>,
                                             !.tasks = tasks]]
            /\ last' = Ev("addCall", 0)
    /\ UNCHANGED <<authVars, tasks, newTask, selectedTask, notes, sortVars>>

\* removeTask(id): issues the delete of the i-th displayed task.
RemoveTask(i, net) ==
    /\ TaskView
    /\ i \in 1..Len(tasks)
    /\ HasFree
    /\ store' = IF net THEN DeleteRows(session, tasks[i].id) ELSE store
    /\ ops' = [ops EXCEPT ![FreeSlot] =
                 [NoOp EXCEPT !.kind = "remove", !.ok = net, !.tasks = tasks,
                              !.sel = selectedTask, !.id = tasks[i].id]]
    /\ last' = Ev("removeCall", tasks[i].id)
    /\ UNCHANGED <<nextId, authVars, tasks, newTask, selectedTask, notes, sortVars>>

\* UpdateNotes that shows the typed text before the update is confirmed.
UpdateNotes_Optimistic(n, net) ==
    /\ TaskView
    /\ selectedTask.id # 0
    /\ HasFree
    /\ store' = IF net THEN UpdateNotesRows(session, selectedTask.id, n) ELSE store
    /\ notes' = n
    /\ ops' = [ops EXCEPT ![FreeSlot] =
                 [NoOp EXCEPT !.kind = "notes", !.ok = net, !.tasks = tasks,
                              !.sel = selectedTask, !.id = selectedTask.id, !.note = n]]
    /\ last' = Ev("notesCall", selectedTask.id)
    /\ UNCHANGED <<nextId, authVars, tasks, newTask, selectedTask, sortVars>>

\* updateNotes(newNotes): returns at once with nothing selected, else issues
\* the update of the selected task's notes.
UpdateNotes(n, net) ==
    /\ TaskView
    /\ IF selectedTask.id = 0
       THEN /\ last' = Ev("notesSkip", 0)
            /\ UNCHANGED <<ops, store>>
       ELSE /\ HasFree
            /\ store' = IF net THEN UpdateNotesRows(session, selectedTask.id, n) ELSE store
            /\ ops' = [ops EXCEPT ![FreeSlot] =
                         [NoOp EXCEPT !.kind = "notes", !.ok = net, !.tasks = tasks,
                                      !.sel = selectedTask, !.id = selectedTask.id,
                                      !.note = n]]
            /\ last' = Ev("notesCall", selectedTask.id)
    /\ UNCHANGED <<nextId, authVars, tasks, newTask, selectedTask, notes, sortVars>>

\* handleDragEnd of dragging the a-th displayed task onto the o-th: nothing on
\* a drop onto itself, else computes the new sequence and issues the update of
\* its first row.  The invocation keeps newTasks in tasks and the 0-based
\* index of the row whose update is outstanding in idx.
HandleDragEnd(a, o, net) ==
    /\ TaskView
    /\ sortType = "priority"
    /\ a \in 1..Len(tasks)
    /\ o \in 1..Len(tasks)
    /\ IF tasks[a].id # tasks[o].id
       THEN /\ HasFree
            /\ LET oldIndex == FindIndex(tasks, tasks[a].id)
                   newIndex == FindIndex(tasks, tasks[o].id)
                   newTasks == ArrayMove(tasks, oldIndex, newIndex)
               IN  /\ store' = IF net THEN UpdatePriorityRows(session, newTasks[1].id, 0)
                                      ELSE store
                   /\ ops' = [ops EXCEPT ![FreeSlot] =
                                [NoOp EXCEPT !.kind = "drag", !.ok = net,
                                             !.tasks = newTasks, !.id = newTasks[1].id,
                                             !.idx = 0]]
                   /\ last' = Ev("dragCall", newTasks[1].id)
       ELSE /\ UNCHANGED <<ops, store>>
            /\ last' = Ev("dragSkip", 0)
    /\ UNCHANGED <<nextId, authVars, tasks, newTask, selectedTask, notes, sortVars>>

\* onSelect / onClick of a task row: setSelectedTask(task); setNotes(task.notes).
SelectTask(i) ==
    /\ TaskView
    /\ i \in 1..Len(tasks)
    /\ selectedTask' = tasks[i]
    /\ notes' = tasks[i].notes
    /\ last' = Ev("select", 0)
    /\ UNCHANGED <<storeVars, authVars, tasks, newTask, sortVars, ops>>

\* ToggleSort that leaves sortOrder alone when it switches to the age order.
ToggleSort_KeepsOrder(net) ==
    /\ TaskView
    /\ HasFree
    /\ IF sortType = "priority"
       THEN sortType' = "age" /\ sortOrder' = sortOrder
       ELSE sortType' = sortType /\ sortOrder' = IF sortOrder = "asc" THEN "desc" ELSE "asc"
    /\ FetchTasks(FreeSlot, user, session, sortType', sortOrder', net)
    /\ last' = Ev("toggleSort", 0)
    /\ UNCHANGED <<storeVars, authVars, tasks, newTask, selectedTask, notes>>

\* ToggleSort that cycles back to the priority order after oldest-first.
ToggleSort_Cycles(net) ==
    /\ TaskView
    /\ HasFree
    /\ IF sortType = "priority"
       THEN sortType' = "age" /\ sortOrder' = "desc"
       ELSE IF sortOrder = "desc"
       THEN sortType' = sortType /\ sortOrder' = "asc"
       ELSE sortType' = "priority" /\ sortOrder' = "asc"
    /\ FetchTasks(FreeSlot, user, session, sortType', sortOrder', net)
    /\ last' = Ev("toggleSort", 0)
    /\ UNCHANGED <<storeVars, authVars, tasks, newTask, selectedTask, notes>>

\* ToggleSort that switches between the two orders and always sets newest-first.
ToggleSort_TypeOnly(net) ==
    /\ TaskView
    /\ HasFree
    /\ sortType' = IF sortType = "priority" THEN "age" ELSE "priority"
    /\ sortOrder' = "desc"
    /\ FetchTasks(FreeSlot, user, session, sortType', sortOrder', net)
    /\ last' = Ev("toggleSort", 0)
    /\ UNCHANGED <<storeVars, authVars, tasks, newTask, selectedTask, notes>>

\* ToggleSort whose fetch is ordered by the sortType and sortOrder of the
\* render in which the button was clicked.
ToggleSort_StaleFetch(net) ==
    /\ TaskView
    /\ HasFree
    /\ IF sortType = "priority"
       THEN sortType' = "age" /\ sortOrder' = "desc"
       ELSE sortType' = sortType /\ sortOrder' = IF sortOrder = "asc" THEN "desc" ELSE "asc"
    /\ FetchTasks(FreeSlot, user, session, sortType, sortOrder, net)
    /\ last' = Ev("toggleSort", 0)
    /\ UNCHANGED <<storeVars, authVars, tasks, newTask, selectedTask, notes>>

\* GetAdjacentTask that stops at the ends of the list instead of wrapping.
GetAdjacentTask_NoWrap(direction) ==
    IF selectedTask.id = 0 \/ Len(tasks) = 0 THEN NoTask
    ELSE LET currentIndex == FindIndex(tasks, selectedTask.id)
         IN  IF currentIndex = -1 THEN NoTask
             ELSE LET newIndex == IF direction = "next"
                                  THEN (IF currentIndex + 1 < Len(tasks)
                                        THEN currentIndex + 1 ELSE currentIndex)
                                  ELSE (IF currentIndex > 0 THEN currentIndex - 1 ELSE 0)
                  IN  tasks[newIndex + 1]

\* getAdjacentTask(direction): null (NoTask) with nothing selected, an empty
\* list or a selection that is not in the list, else the task one place on or
\* back, wrapping around.
GetAdjacentTask(direction) ==
    IF selectedTask.id = 0 \/ Len(tasks) = 0 THEN NoTask
    ELSE LET currentIndex == FindIndex(tasks, selectedTask.id)
         IN  IF currentIndex = -1 THEN NoTask
             ELSE LET newIndex == IF direction = "next"
                                  THEN (currentIndex + 1) % Len(tasks)
                                  ELSE (currentIndex - 1 + Len(tasks)) % Len(tasks)
                  IN  tasks[newIndex + 1]

\* onClick of the prev / next button (rendered with a selected task, disabled
\* when the list has at most one task): select the adjacent task, if any.
Navigate(direction) ==
    /\ TaskView
    /\ selectedTask.id # 0
    /\ Len(tasks) > 1
    /\ LET adjacent == GetAdjacentTask(direction)
       IN  IF adjacent # NoTask
           THEN selectedTask' = adjacent /\ notes' = adjacent.notes
           ELSE UNCHANGED <<selectedTask, notes>>
    /\ last' = Ev(direction, 0)
    /\ UNCHANGED <<storeVars, authVars, tasks, newTask, sortVars, ops>>

\* toggleSort, followed by the fetch effect of the render it causes.
ToggleSort(net) ==
    /\ TaskView
    /\ HasFree
    /\ IF sortType = "priority"
       THEN sortType' = "age" /\ sortOrder' = "desc"
       ELSE sortType' = sortType /\ sortOrder' = IF sortOrder = "asc" THEN "desc" ELSE "asc"
    /\ FetchTasks(FreeSlot, user, session, sortType', sortOrder', net)
    /\ last' = Ev("toggleSort", 0)
    /\ UNCHANGED <<storeVars, authVars, tasks, newTask, selectedTask, notes>>

\* ------------------------------------------- handlers after the await
Done(s) == [ops EXCEPT ![s] = NoOp]

\* FetchDone that runs setTasks(data ?? []) before it looks at the error.
FetchDone_ClearsOnError(s) ==
    /\ ops[s].kind = "fetch"
    /\ tasks' = ops[s].res
    /\ last' = Ev(IF ops[s].ok THEN "fetchOk" ELSE "fetchFail", 0)
    /\ ops' = Done(s)
    /\ UNCHANGED <<storeVars, authVars, newTask, selectedTask, notes, sortVars>>

\* fetchTasks: setTasks(data ?? []) or log the error.
FetchDone(s) ==
    /\ ops[s].kind = "fetch"
    /\ IF ops[s].ok
       THEN tasks' = ops[s].res /\ last' = Ev("fetchOk", 0)
       ELSE tasks' = tasks /\ last' = Ev("fetchFail", 0)
    /\ ops' = Done(s)
    /\ UNCHANGED <<storeVars, authVars, newTask, selectedTask, notes, sortVars>>

\* addTask: setTasks([...tasks, data]); setNewTask('') or log the error.
AddDone(s) ==
    /\ ops[s].kind = "add"
    /\ IF ops[s].ok
       THEN /\ tasks' = Append(ops[s].tasks, ops[s].res[1])
            /\ newTask' = <<>>
            /\ last' = Ev("addOk", ops[s].res[1].id)
       ELSE /\ UNCHANGED <<tasks, newTask>>
            /\ last' = Ev("addFail", 0)
    /\ ops' = Done(s)
    /\ UNCHANGED <<storeVars, authVars, selectedTask, notes, sortVars>>

\* removeTask: setTasks(tasks.filter(...)); clear the selection if it is the
\* removed task; or log the error.
RemoveDone(s) ==
    /\ ops[s].kind = "remove"
    /\ IF ops[s].ok
       THEN /\ tasks' = FilterOut(ops[s].tasks, ops[s].id)
            /\ IF ops[s].sel.id = ops[s].id
               THEN selectedTask' = NoTask /\ notes' = ""
               ELSE UNCHANGED <<selectedTask, notes>>
            /\ last' = Ev("removeOk", ops[s].id)
       ELSE /\ UNCHANGED <<tasks, selectedTask, notes>>
            /\ last' = Ev("removeFail", 0)
    /\ ops' = Done(s)
    /\ UNCHANGED <<storeVars, authVars, newTask, sortVars>>

\* updateNotes: setNotes(newNotes); setTasks(tasks.map(...)) or log the error.
NotesDone(s) ==
    /\ ops[s].kind = "notes"
    /\ IF ops[s].ok
       THEN /\ notes' = ops[s].note
            /\ tasks' = MapNotes(ops[s].tasks, ops[s].sel.id, ops[s].note)
            /\ last' = Ev("notesOk", 0)
       ELSE /\ UNCHANGED <<tasks, notes>>
            /\ last' = Ev("notesFail", 0)
    /\ ops' = Done(s)
    /\ UNCHANGED <<storeVars, authVars, newTask, selectedTask, sortVars>>

\* DragStepDone that runs setTasks(newTasks) also when an update failed.
DragStepDone_CommitsOnError(s, net) ==
    /\ ops[s].kind = "drag"
    /\ IF ~ops[s].ok
       THEN /\ ops' = Done(s)
            /\ tasks' = ops[s].tasks
            /\ store' = store
            /\ last' = Ev("dragFail", 0)
       ELSE IF ops[s].idx + 1 < Len(ops[s].tasks)
       THEN /\ LET index == ops[s].idx + 1
                   id == ops[s].tasks[index + 1].id
               IN  /\ store' = IF net THEN UpdatePriorityRows(session, id, index) ELSE store
                   /\ ops' = [ops EXCEPT ![s].ok = net, ![s].idx = index, ![s].id = id]
                   /\ last' = Ev("dragNext", id)
            /\ tasks' = tasks
       ELSE /\ ops' = Done(s)
            /\ tasks' = ops[s].tasks
            /\ store' = store
            /\ last' = Ev("dragOk", 0)
    /\ UNCHANGED <<nextId, authVars, newTask, selectedTask, notes, sortVars>>

\* handleDragEnd, one turn of its loop: on an error leave the loop and log;
\* after the last row setTasks(newTasks); else issue the next row's update.
DragStepDone(s, net) ==
    /\ ops[s].kind = "drag"
    /\ IF ~ops[s].ok
       THEN /\ ops' = Done(s)
            /\ UNCHANGED <<tasks, store>>
            /\ last' = Ev("dragFail", 0)
       ELSE IF ops[s].idx + 1 < Len(ops[s].tasks)
       THEN /\ LET index == ops[s].idx + 1
                   id == ops[s].tasks[index + 1].id
               IN  /\ store' = IF net THEN UpdatePriorityRows(session, id, index) ELSE store
                   /\ ops' = [ops EXCEPT ![s].ok = net, ![s].idx = index, ![s].id = id]
                   /\ last' = Ev("dragNext", id)
            /\ tasks' = tasks
       ELSE /\ ops' = Done(s)
            /\ tasks' = ops[s].tasks
            /\ store' = store
            /\ last' = Ev("dragOk", 0)
    /\ UNCHANGED <<nextId, authVars, newTask, selectedTask, notes, sortVars>>

\* ------------------------------------------------------- specifications
\* Reordering: one identity signs in, adds tasks and drags them; invocations
\* overlap.
NextReorder ==
    \/ \E net \in BOOLEAN : InitialSession(net)
    \/ HandleSignIn("A")
    \/ \E s \in Slots, net \in BOOLEAN : SignInDone(s, net)
    \/ SetNewTask(<<"a">>)
    \/ nextId <= MaxTasks /\ \E net \in BOOLEAN : AddTask(net)
    \/ \E a, o \in 1..MaxTasks, net \in BOOLEAN : HandleDragEnd(a, o, net)
    \/ \E s \in Slots : FetchDone(s)
    \/ \E s \in Slots : AddDone(s)
    \/ \E s \in Slots, net \in BOOLEAN : DragStepDone(s, net)

SpecReorder == Init /\ [][NextReorder]_vars

\* Adding: one identity signs in, types into the input and adds tasks;
\* invocations overlap.
NextAdd ==
    \/ \E net \in BOOLEAN : InitialSession(net)
    \/ HandleSignIn("A")
    \/ \E s \in Slots, net \in BOOLEAN : SignInDone(s, net)
    \/ \E t \in Texts : SetNewTask(t)
    \/ nextId <= MaxTasks /\ \E net \in BOOLEAN : AddTask(net)
    \/ \E s \in Slots : FetchDone(s)
    \/ \E s \in Slots : AddDone(s)

SpecAdd == Init /\ [][NextAdd]_vars

\* All data operations of one identity: the user types and starts a data
\* operation when no other is awaiting its response, switches once from the
\* priority order to the age order, and selects tasks at any time.
NextData ==
    \/ \E net \in BOOLEAN : InitialSession(net)
    \/ HandleSignIn("A")
    \/ \E s \in Slots, net \in BOOLEAN : SignInDone(s, net)
    \/ Quiet /\ SetNewTask(<<"a">>)
    \/ Quiet /\ nextId <= MaxDataTasks /\ \E net \in BOOLEAN : AddTask(net)
    \/ Quiet /\ \E i \in 1..MaxTasks, net \in BOOLEAN : RemoveTask(i, net)
    \/ Quiet /\ \E n \in NoteVals, net \in BOOLEAN : UpdateNotes(n, net)
    \/ Quiet /\ \E a, o \in 1..MaxTasks, net \in BOOLEAN : HandleDragEnd(a, o, net)
    \/ Quiet /\ sortType = "priority" /\ \E net \in BOOLEAN : ToggleSort(net)
    \/ \E i \in 1..MaxTasks : SelectTask(i)
    \/ \E s \in Slots : FetchDone(s)
    \/ \E s \in Slots : AddDone(s)
    \/ \E s \in Slots : RemoveDone(s)
    \/ \E s \in Slots : NotesDone(s)
    \/ \E s \in Slots, net \in BOOLEAN : DragStepDone(s, net)

SpecData == Init /\ [][NextData]_vars

\* Two identities share the browser: they sign in and out in turn and each
\* adds, deletes and reorders the tasks it sees, one data operation at a time;
\* a task can still be typed and added while a sign-out awaits its response.
NextOwners ==
    \/ \E net \in BOOLEAN : InitialSession(net)
    \/ \E c \in Users : HandleSignIn(c)
    \/ \E s \in Slots, net \in BOOLEAN : SignInDone(s, net)
    \/ Quiet /\ \E net \in BOOLEAN : SignOut(net)
    \/ \E s \in Slots : SignOutDone(s)
    \/ NoData /\ SetNewTask(<<"a">>)
    \/ NoData /\ nextId <= MaxSharedTasks /\ \E net \in BOOLEAN : AddTask(net)
    \/ Quiet /\ \E i \in 1..MaxTasks, net \in BOOLEAN : RemoveTask(i, net)
    \/ Quiet /\ \E a, o \in 1..MaxTasks, net \in BOOLEAN : HandleDragEnd(a, o, net)
    \/ \E s \in Slots : FetchDone(s)
    \/ \E s \in Slots : AddDone(s)
    \/ \E s \in Slots : RemoveDone(s)
    \/ \E s \in Slots, net \in BOOLEAN : DragStepDone(s, net)

SpecOwners == Init /\ [][NextOwners]_vars

\* Sorting: one identity signs in and out, adds tasks and toggles the sort;
\* list requests overlap, and the task view stays in use while a sign-out
\* awaits its response.
NextSort ==
    \/ \E net \in BOOLEAN : InitialSession(net)
    \/ HandleSignIn("A")
    \/ \E s \in Slots, net \in BOOLEAN : SignInDone(s, net)
    \/ NoData /\ \E net \in BOOLEAN : SignOut(net)
    \/ \E s \in Slots : SignOutDone(s)
    \/ NoData /\ SetNewTask(<<"a">>)
    \/ NoData /\ nextId <= MaxSortTasks /\ \E net \in BOOLEAN : AddTask(net)
    \/ \E net \in BOOLEAN : ToggleSort(net)
    \/ \E s \in Slots : FetchDone(s)
    \/ \E s \in Slots : AddDone(s)

SpecSort == Init /\ [][NextSort]_vars

\* Authentication: two identities sign in, sign up and sign out, identity
\* events of other tabs arrive when no list request is pending, and the
\* signed-in identity adds tasks, also while a sign-out awaits its response.
NextAuth ==
    \/ \E net \in BOOLEAN : InitialSession(net)
    \/ \E c \in Users \cup {None, Throws} : HandleSignIn(c)
    \/ \E c \in Users \cup {None, Throws, Unconfirmed} : HandleSignUp(c)
    \/ \E s \in Slots, net \in BOOLEAN : SignInDone(s, net)
    \/ \E s \in Slots, net \in BOOLEAN : SignUpDone(s, net)
    \/ Quiet /\ \E net \in BOOLEAN : SignOut(net)
    \/ \E s \in Slots : SignOutDone(s)
    \/ NoFetch /\ \E sess \in Users \cup {None}, net \in BOOLEAN : AuthEvent(sess, net)
    \/ NoData /\ SetNewTask(<<"a">>)
    \/ NoData /\ nextId <= MaxAuthTasks /\ \E net \in BOOLEAN : AddTask(net)
    \/ \E s \in Slots : FetchDone(s)
    \/ \E s \in Slots : AddDone(s)

SpecAuth == Init /\ [][NextAuth]_vars

\* Editing notes: one identity signs in, adds and selects a task and types
\* into the notes textarea (a change event carries a text other than the one
\* shown); every update goes through, and the user types on while updates
\* await their responses.
NextNotes ==
    \/ \E net \in BOOLEAN : InitialSession(net)
    \/ HandleSignIn("A")
    \/ \E s \in Slots, net \in BOOLEAN : SignInDone(s, net)
    \/ Quiet /\ SetNewTask(<<"a">>)
    \/ Quiet /\ nextId <= MaxNotesTasks /\ \E net \in BOOLEAN : AddTask(net)
    \/ \E i \in 1..MaxTasks : SelectTask(i)
    \/ \E n \in NoteEdits : n # notes /\ UpdateNotes(n, TRUE)
    \/ \E s \in Slots : FetchDone(s)
    \/ \E s \in Slots : AddDone(s)
    \/ \E s \in Slots : NotesDone(s)

SpecNotes == Init /\ [][NextNotes]_vars

\* Dragging: one identity signs in, adds tasks and drags them, one operation
\* at a time.
NextDrag ==
    \/ \E net \in BOOLEAN : InitialSession(net)
    \/ HandleSignIn("A")
    \/ \E s \in Slots, net \in BOOLEAN : SignInDone(s, net)
    \/ Quiet /\ SetNewTask(<<"a">>)
    \/ Quiet /\ nextId <= MaxDragTasks /\ \E net \in BOOLEAN : AddTask(net)
    \/ Quiet /\ \E a, o \in 1..MaxTasks, net \in BOOLEAN : HandleDragEnd(a, o, net)
    \/ \E s \in Slots : FetchDone(s)
    \/ \E s \in Slots : AddDone(s)
    \/ \E s \in Slots, net \in BOOLEAN : DragStepDone(s, net)

SpecDrag == Init /\ [][NextDrag]_vars

\* Age labels: a task created some minutes ago is rendered.
AgeInputs == 0..MaxMinutes

InitAge ==
    /\ store = {}
    /\ nextId = 1
    /\ session = None
    /\ user = None
    /\ loading = TRUE
    /\ authError = ""
    /\ tasks = <<>>
    /\ newTask = <<>>
    /\ selectedTask = NoTask
    /\ notes = ""
    /\ sortType = "priority"
    /\ sortOrder = "asc"
    /\ ops = [s \in Slots |-> NoOp]
    /\ \E m \in AgeInputs : last = [ev |-> "age", id |-> 0, minutes |-> m, label |-> <<>>]

\* The render of a task row calls formatTaskAge.
RenderAge ==
    /\ last.ev = "age"
    /\ last' = [last EXCEPT !.ev = "formatTaskAge", !.label = FormatTaskAge(last.minutes)]
    /\ UNCHANGED <<storeVars, authVars, tasks, newTask, selectedTask, notes, sortVars, ops>>

NextAge == RenderAge

SpecAge == InitAge /\ [][NextAge]_vars

\* Overlapping operations: one identity signs in and, once its list has
\* arrived, adds, deletes, edits and drags tasks without waiting for
\* responses; every request goes through.
NextOverlap ==
    \/ \E net \in BOOLEAN : InitialSession(net)
    \/ HandleSignIn("A")
    \/ \E s \in Slots : SignInDone(s, TRUE)
    \/ NoFetch /\ newTask = <<>> /\ SetNewTask(<<"a">>)
    \/ NoFetch /\ nextId <= MaxOverlapTasks /\ AddTask(TRUE)
    \/ NoFetch /\ \E i \in 1..MaxTasks : RemoveTask(i, TRUE)
    \/ NoFetch /\ UpdateNotes("n", TRUE)
    \/ NoFetch /\ \E a, o \in 1..MaxTasks : HandleDragEnd(a, o, TRUE)
    \/ Quiet /\ \E i \in 1..MaxTasks : SelectTask(i)
    \/ \E s \in Slots : FetchDone(s)
    \/ \E s \in Slots : AddDone(s)
    \/ \E s \in Slots : RemoveDone(s)
    \/ \E s \in Slots : NotesDone(s)
    \/ \E s \in Slots : DragStepDone(s, TRUE)

SpecOverlap == Init /\ [][NextOverlap]_vars

\* Overlapping list requests: one identity signs in, adds tasks one at a time
\* and, when no insert is in flight, toggles the sort without waiting for
\* responses; every request goes through.
NextRefetch ==
    \/ \E net \in BOOLEAN : InitialSession(net)
    \/ HandleSignIn("A")
    \/ \E s \in Slots : SignInDone(s, TRUE)
    \/ Quiet /\ SetNewTask(<<"a">>)
    \/ Quiet /\ nextId <= MaxRefetchTasks /\ AddTask(TRUE)
    \/ NoAdd /\ ToggleSort(TRUE)
    \/ \E s \in Slots : FetchDone(s)
    \/ \E s \in Slots : AddDone(s)

SpecRefetch == Init /\ [][NextRefetch]_vars

\* Navigation: one identity signs in, adds and deletes tasks one at a time,
\* and selects tasks by click and by the prev / next buttons at any time.
NextNav ==
    \/ \E net \in BOOLEAN : InitialSession(net)
    \/ HandleSignIn("A")
    \/ \E s \in Slots, net \in BOOLEAN : SignInDone(s, net)
    \/ Quiet /\ SetNewTask(<<"a">>)
    \/ Quiet /\ nextId <= MaxNavTasks /\ \E net \in BOOLEAN : AddTask(net)
    \/ Quiet /\ \E i \in 1..MaxTasks, net \in BOOLEAN : RemoveTask(i, net)
    \/ \E i \in 1..MaxTasks : SelectTask(i)
    \/ \E direction \in {"prev", "next"} : Navigate(direction)
    \/ \E s \in Slots : FetchDone(s)
    \/ \E s \in Slots : AddDone(s)
    \/ \E s \in Slots : RemoveDone(s)

SpecNav == Init /\ [][NextNav]_vars

\* ---------------------------------------------------------------- claims
\* The stored row of the i-th displayed task, if the store still has it.
Stored(i) == {r \in store : r.id = tasks[i].id}

\* C1: after a reorder whose per-row updates all succeeded, the stored
\* priority of every task of the new displayed sequence equals its 0-based
\* index in that sequence.
C1_ReorderPrioritiesAreIndexes ==
    last.ev = "dragOk" =>
        \A i \in 1..Len(tasks) : \A r \in Stored(i) : r.priority = i - 1

\* C2: when a priority update of a reorder fails, the reorder ends there: it
\* issues no further update (its invocation is over and the store is left as
\* the earlier updates made it) and the in-memory task list is not changed.
C2_FailedReorderAborts ==
    [][last'.ev = "dragFail" =>
          /\ tasks' = tasks
          /\ store' = store
          /\ \E s \in Slots : /\ ops[s].kind = "drag"
                              /\ ~ops[s].ok
                              /\ ops' = [ops EXCEPT ![s] = NoOp]]_vars

\* A reorder has failed after its first update was applied: the store holds
\* a priority the unchanged displayed order does not show.
C2_Witness ==
    /\ last.ev = "dragFail"
    /\ \E i \in 1..Len(tasks) : \E r \in Stored(i) : r.priority # i - 1

\* C3: at no time are two priority-update requests in flight.
C3_OnePriorityUpdateInFlight ==
    Cardinality({s \in Slots : ops[s].kind = "drag"}) <= 1

\* C4: after removeTask(id) has completed successfully the selection does not
\* reference the deleted task, whatever happened while the delete was in flight.
C4_RemoveClearsSelection ==
    last.ev = "removeOk" => selectedTask.id # last.id

\* C5: when the remote call of fetchTasks, addTask, removeTask or updateNotes
\* fails, the continuation leaves the task list, the selection, the notes
\* buffer and the new-task input as they are and shows no error.
C5_FailureLeavesState ==
    [][last'.ev \in {"fetchFail", "addFail", "removeFail", "notesFail"} =>
          UNCHANGED <<tasks, selectedTask, notes, newTask, authError>>]_vars

\* A fetch has failed while a list with a selected task was displayed.
C5_Witness ==
    /\ last.ev = "fetchFail"
    /\ tasks # <<>>
    /\ selectedTask.id # 0

\* The invocation in slot s ends in this step with every remote call of it
\* having returned success.
Committed(s) ==
    /\ ops[s].kind \in {"fetch", "add", "remove", "notes", "drag"}
    /\ ops[s].ok
    /\ ops[s].kind = "drag" => ops[s].idx = Len(ops[s].tasks) - 1
    /\ ops'[s].kind = "idle"

\* C6: the task list, the selection and the notes buffer change only in the
\* step that completes a data operation all of whose remote calls returned
\* success (or, for the selection and the buffer, when the user selects a task).
C6_NoOptimisticUpdate ==
    [][(tasks' # tasks \/ selectedTask' # selectedTask \/ notes' # notes) =>
          \/ last'.ev = "select" /\ tasks' = tasks
          \/ \E s \in Slots : Committed(s)]_vars

\* A reorder has been committed to the task list after its last update.
C6_Witness ==
    /\ last.ev = "dragOk"
    /\ \E i \in 1..Len(tasks) : \E r \in Stored(i) : r.priority = i - 1 /\ tasks[i].priority # i - 1

\* C7: the response to a list request holds exactly the rows owned by the
\* identity that issued it, whatever rows other identities own.
C7_ListReturnsOwnRows ==
    [][\A s \in Slots :
          (ops'[s].kind = "fetch" /\ ops'[s].ok /\ ops[s].kind # "fetch") =>
              {ops'[s].res[i] : i \in 1..Len(ops'[s].res)} =
                  {r \in store : r.user_id = session'}]_vars

\* An identity has its own rows listed while the store also holds rows of
\* another identity.
C7_Witness ==
    \E s \in Slots :
        /\ ops[s].kind = "fetch"
        /\ ops[s].ok
        /\ ops[s].res # <<>>
        /\ \E r \in store : r.user_id # session

\* C8: every row a request creates, changes or removes is owned by the
\* identity that issued the request.
C8_OnlyOwnerMutates ==
    [][\A r \in (store \ store') \cup (store' \ store) :
          session # None /\ r.user_id = session]_vars

\* An identity's delete or update went through for a row of another identity
\* and the row is still there.
C8_Witness ==
    /\ last.ev \in {"removeCall", "dragCall", "dragNext"}
    /\ \E s \in Slots : ops[s].ok /\ ops[s].id = last.id
    /\ \E r \in store : r.id = last.id /\ r.user_id # session

\* C9: while the task view is shown, every task of the task list and the
\* selected task are owned by the signed-in identity.
C9_ShownTasksAreOwn ==
    TaskView =>
        /\ \A i \in 1..Len(tasks) : tasks[i].user_id = user
        /\ selectedTask.id # 0 => selectedTask.user_id = user

\* C10: addTask with blank text issues no request and changes nothing; else
\* it inserts one row {text, notes '', priority = length of the task list of
\* the call, user_id = the user}, and on success appends the returned row to
\* the end of the task list and clears the input.
C10_AddTask ==
    [][/\ last'.ev = "addSkip" =>
             /\ Trim(newTask) = <<>> \/ user = None
             /\ UNCHANGED <<store, nextId, tasks, newTask, selectedTask, notes, ops>>
       /\ last'.ev = "addCall" =>
             /\ Trim(newTask) # <<>> /\ user # None
             /\ UNCHANGED <<tasks, newTask>>
             /\ \E s \in Slots :
                   /\ ops[s].kind = "idle" /\ ops'[s].kind = "add"
                   /\ ops'[s].tasks = tasks
                   /\ IF ops'[s].ok
                      THEN \E r \in store' :
                              /\ r \notin store /\ store' = store \cup {r}
                              /\ r.text = newTask /\ r.notes = ""
                              /\ r.priority = Len(tasks) /\ r.user_id = user
                              /\ ops'[s].res = <<r>>
                      ELSE store' = store
       /\ last'.ev = "addOk" =>
             \E s \in Slots :
                   /\ ops[s].kind = "add" /\ ops[s].ok /\ ops'[s].kind = "idle"
                   /\ tasks' = Append(tasks, ops[s].res[1])
                   /\ newTask' = <<>>]_vars

\* C11: toggleSort invoked while sortType is 'priority' results in sortType
\* 'age' and sortOrder 'desc'.
C11_PriorityTogglesToAgeDesc ==
    [][(last'.ev = "toggleSort" /\ sortType = "priority") =>
          (sortType' = "age" /\ sortOrder' = "desc")]_vars

\* The sort has just been toggled away from the priority order.
C11_Witness ==
    /\ last.ev = "toggleSort"
    /\ sortType = "age"
    /\ sortOrder = "desc"

\* C12: once sortType is 'age' it stays 'age'; each toggle flips sortOrder
\* and nothing else changes sortOrder.
C12_AgeTogglesOrderOnly ==
    [][sortType = "age" =>
          /\ sortType' = "age"
          /\ IF last'.ev = "toggleSort"
             THEN sortOrder' = (IF sortOrder = "asc" THEN "desc" ELSE "asc")
             ELSE sortOrder' = sortOrder]_vars

\* A toggle in the age order has flipped newest-first to oldest-first.
C12_Witness ==
    /\ last.ev = "toggleSort"
    /\ sortType = "age"
    /\ sortOrder = "asc"

\* C13: in every reachable state sortType = 'priority' implies sortOrder = 'asc'.
C13_PriorityIsAscending ==
    sortType = "priority" => sortOrder = "asc"

\* A list fetched in the priority order is displayed, lowest priority first.
C13_Witness ==
    /\ last.ev = "fetchOk"
    /\ sortType = "priority"
    /\ Len(tasks) = 2
    /\ tasks[1].priority < tasks[2].priority

\* C14: every change of sortType or sortOrder issues a list request ordered
\* by the new field and direction, and a list request that succeeds replaces
\* the whole task list by its result.
C14_SortChangeRefetches ==
    [][/\ (sortType' # sortType \/ sortOrder' # sortOrder) =>
             \E s \in Slots :
                 /\ ops[s].kind = "idle"
                 /\ ops'[s].kind = "fetch"
                 /\ ops'[s].ok =>
                       ops'[s].res \in
                           Ordered({r \in store : r.user_id = user},
                                   IF sortType' = "priority" THEN "priority" ELSE "created_at",
                                   sortOrder' = "asc")
       /\ last'.ev = "fetchOk" =>
             \E s \in Slots :
                 /\ ops[s].kind = "fetch" /\ ops[s].ok /\ ops'[s].kind = "idle"
                 /\ tasks' = ops[s].res]_vars

\* The list fetched after a toggle is displayed newest first.
C14_Witness ==
    /\ last.ev = "fetchOk"
    /\ sortType = "age"
    /\ sortOrder = "desc"
    /\ Len(tasks) = 2
    /\ tasks[1].created_at > tasks[2].created_at

\* C15: when the session identity changes from absent to present, the task
\* view is rendered for that identity and a list request for its tasks is
\* issued.
C15_SignInShowsTasksAndFetches ==
    [][(session = None /\ session' # None) =>
          /\ ~loading'
          /\ user' = session'
          /\ \E s \in Slots :
                /\ ops[s].kind # "fetch"
                /\ ops'[s].kind = "fetch"
                /\ ops'[s].ok =>
                      {ops'[s].res[i] : i \in 1..Len(ops'[s].res)} =
                          {r \in store : r.user_id = session'}]_vars

\* A sign-in has succeeded for an identity that owns a task: the task view
\* is rendered and the list request returning the task is in flight.
C15_Witness ==
    /\ last.ev = "signInOk"
    /\ TaskView
    /\ \E s \in Slots : ops[s].kind = "fetch" /\ ops[s].ok /\ ops[s].res # <<>>

\* C16: at most one sign-in or sign-up request is outstanding at any time.
C16_OneAuthRequest ==
    Cardinality({s \in Slots : ops[s].kind \in {"signin", "signup"}}) <= 1

\* C17: every failed sign-in or sign-up attempt ends with the user absent,
\* loading false and authError equal to the message of the failure; every
\* submit clears authError.
C17_FailureShowsProviderMessage ==
    [][/\ last'.ev \in {"signInFail", "signUpFail"} =>
             \E s \in Slots :
                 /\ ops[s].kind \in {"signin", "signup"} /\ ops'[s].kind = "idle"
                 /\ user' = None
                 /\ loading' = FALSE
                 /\ authError' = ops[s].note
       /\ last'.ev \in {"signInCall", "signUpCall"} => authError' = ""]_vars

\* C17 as amended: a failed attempt leaves the user and the session as they
\* are, sets loading false and sets authError to the provider's message when
\* the provider reported an error, to the fixed text when the call threw;
\* every submit clears authError.
C17_FailureLeavesUserShowsError ==
    [][/\ last'.ev \in {"signInFail", "signUpFail"} =>
             \E s \in Slots :
                 /\ ops[s].kind \in {"signin", "signup"} /\ ops'[s].kind = "idle"
                 /\ UNCHANGED <<user, session>>
                 /\ loading' = FALSE
                 /\ authError' = IF ops[s].cred = Throws THEN Unexpected ELSE ops[s].note
                 /\ ops[s].cred = None => ops[s].note \in {SignInMessage, SignUpMessage}
       /\ last'.ev \in {"signInCall", "signUpCall"} => authError' = ""]_vars

\* A sign-in has failed with an exception: the form shows the fixed text.
C17_Witness ==
    /\ last.ev = "signInFail"
    /\ user = None
    /\ ~loading
    /\ authError = Unexpected

\* C18: each change event with a selected task issues one update request
\* carrying the full new text for the selected task's id, and once all issued
\* note updates have completed successfully the store's notes for that task
\* equal the text shown in the notes buffer.
C18_NotesBufferMatchesStore ==
    [][/\ last'.ev = "notesCall" =>
             \E s \in Slots :
                 /\ ops[s].kind = "idle" /\ ops'[s].kind = "notes"
                 /\ ops'[s].id = selectedTask.id
                 /\ \A t \in Slots \ {s} : ops'[t] = ops[t]
                 /\ ops'[s].ok =>
                       \A r \in store' : r.id = selectedTask.id => r.notes = ops'[s].note
       /\ (last'.ev = "notesOk" /\ \A t \in Slots : ops'[t].kind # "notes") =>
             \E s \in Slots :
                 /\ ops[s].kind = "notes" /\ ops'[s].kind = "idle"
                 /\ \A r \in store' : r.id = ops[s].id => r.notes = notes']_vars

\* C19: a drag of the a-th displayed task onto the o-th computes a sequence
\* that is a permutation of the displayed tasks with the dragged task at
\* index o and all other tasks in their displayed relative order; a drop of a
\* task on itself issues no update and changes nothing.
C19_SingleElementRelocation ==
    [][\A a, o \in 1..MaxTasks, net \in BOOLEAN :
          HandleDragEnd(a, o, net) =>
              IF a = o
              THEN UNCHANGED <<store, ops, tasks>>
              ELSE \E s \in Slots :
                      /\ ops[s].kind = "idle" /\ ops'[s].kind = "drag"
                      /\ LET newTasks == ops'[s].tasks
                         IN  /\ Len(newTasks) = Len(tasks)
                             /\ {newTasks[i] : i \in 1..Len(newTasks)} =
                                    {tasks[i] : i \in 1..Len(tasks)}
                             /\ newTasks[o] = tasks[a]
                             /\ \A i, j \in 1..Len(tasks) :
                                    (i < j /\ i # a /\ j # a) =>
                                        \E k, l \in 1..Len(newTasks) :
                                            /\ k < l
                                            /\ newTasks[k] = tasks[i]
                                            /\ newTasks[l] = tasks[j]]_vars

\* The first of three displayed tasks has been dragged onto the last: the
\* new sequence is the second, the third, the first.
C19_Witness ==
    /\ last.ev = "dragCall"
    /\ Len(tasks) = 3
    /\ \E s \in Slots :
          /\ ops[s].kind = "drag"
          /\ ops[s].tasks = <<tasks[2], tasks[3], tasks[1]>>

\* The label the claim states for m elapsed minutes.
ClaimedAge(m) ==
    LET d == m \div 1440
        Form(n, unit) == <<n, unit, IF n = 1 THEN "" ELSE "s", "ago">>
    IN  IF m < 1 THEN <<"Just now">>
        ELSE IF m < 60 THEN Form(m, "minute")
        ELSE IF m < 1440 THEN Form(m \div 60, "hour")
        ELSE IF d < 30 THEN Form(d, "day")
        ELSE Form(d \div 30, "month")

\* C20: formatTaskAge returns, for m elapsed minutes, 'Just now' below 1,
\* minutes below 60, whole hours below 1440, whole days d = m div 1440 below
\* 30 days and whole months d div 30 from there on, singular exactly for 1;
\* 0, 59, 60, 1439, 1440 minutes and 30 days give 'Just now', '59 minutes
\* ago', '1 hour ago', '23 hours ago', '1 day ago', '1 month ago'.
C20_FormatTaskAge ==
    /\ last.ev = "formatTaskAge" => last.label = ClaimedAge(last.minutes)
    /\ FormatTaskAge(0) = <<"Just now">>
    /\ FormatTaskAge(59) = <<59, "minute", "s", "ago">>
    /\ FormatTaskAge(60) = <<1, "hour", "", "ago">>
    /\ FormatTaskAge(1439) = <<23, "hour", "s", "ago">>
    /\ FormatTaskAge(1440) = <<1, "day", "", "ago">>
    /\ FormatTaskAge(30 * 1440) = <<1, "month", "", "ago">>

\* The label of a task created 60 days ago has been computed: 2 months ago.
C20_Witness ==
    /\ last.ev = "formatTaskAge"
    /\ last.minutes = 60 * 1440
    /\ last.label = <<2, "month", "s", "ago">>

\* The notes of the selected task as the in-memory task list holds them.
ListedNotes == {tasks[i].notes : i \in {j \in 1..Len(tasks) : tasks[j].id = selectedTask.id}}

\* C21: for a selected task with empty notes the rendered mode shows the
\* placeholder and the raw mode an empty field; for non-empty notes both
\* modes show the notes.
C21_NotesPanelShowsTaskNotes ==
    (TaskView /\ selectedTask.id # 0) =>
        \A n \in ListedNotes :
            IF n = ""
            THEN RenderedMarkdown = Placeholder /\ RawField = ""
            ELSE RenderedMarkdown = n /\ RawField = n

\* C22: in every state with a selected task the notes buffer equals the
\* notes of that task in the in-memory task list.
C22_BufferIsSelectedTaskNotes ==
    (TaskView /\ selectedTask.id # 0) => \A n \in ListedNotes : notes = n

\* C23: whenever no remote operation is in flight and every operation so far
\* succeeded, the ids of the in-memory task list are the ids of the signed-in
\* user's rows in the store.
C23_ListMatchesStore ==
    (TaskView /\ Quiet) =>
        {tasks[i].id : i \in 1..Len(tasks)} = {r.id : r \in {x \in store : x.user_id = user}}

\* C24: once every outstanding list request has responded, the in-memory
\* task list is a result of the list request for the current sortType and
\* sortOrder.
C24_LastRequestWins ==
    (TaskView /\ last.ev = "fetchOk" /\ \A s \in Slots : ops[s].kind # "fetch") =>
        tasks \in Ordered({r \in store : r.user_id = user},
                          IF sortType = "priority" THEN "priority" ELSE "created_at",
                          sortOrder = "asc")

\* The stored priority of the i-th displayed task (its displayed priority
\* if the store no longer has the row).
StoredPriority(i) ==
    IF Stored(i) = {} THEN tasks[i].priority ELSE (CHOOSE r \in Stored(i) : TRUE).priority

\* C25: in every state with no operation in flight the in-memory task list is
\* ordered by the current sort criteria: non-decreasing stored priority in
\* the priority order, created_at descending or ascending per sortOrder in
\* the age order.
C25_ListIsSorted ==
    (TaskView /\ Quiet) =>
        \A i, j \in 1..Len(tasks) :
            i < j =>
                IF sortType = "priority" THEN StoredPriority(i) <= StoredPriority(j)
                ELSE IF sortOrder = "asc" THEN tasks[i].created_at <= tasks[j].created_at
                ELSE tasks[i].created_at >= tasks[j].created_at

\* The 1-based positions of the selected task in the displayed list.
SelectedAt == {i \in 1..Len(tasks) : tasks[i].id = selectedTask.id}

\* C26: with the selected task at 0-based index i of n >= 1 displayed tasks
\* getAdjacentTask returns the task at (i+1) mod n for 'next' and at
\* (i-1+n) mod n for 'prev'; it returns null when nothing is selected, the
\* list is empty or the selected task is not in the list, and a click on
\* prev / next then leaves the selection and the notes buffer unchanged.
C26_AdjacentWraps ==
    [][/\ (selectedTask.id = 0 \/ tasks = <<>> \/ SelectedAt = {}) =>
             /\ GetAdjacentTask("next") = NoTask
             /\ GetAdjacentTask("prev") = NoTask
             /\ last'.ev \in {"prev", "next"} => UNCHANGED <<selectedTask, notes>>
       /\ (selectedTask.id # 0 /\ SelectedAt # {}) =>
             \A p \in SelectedAt :
                 LET i == p - 1
                     n == Len(tasks)
                 IN  /\ GetAdjacentTask("next") = tasks[((i + 1) % n) + 1]
                     /\ GetAdjacentTask("prev") = tasks[((i - 1 + n) % n) + 1]
                     /\ last'.ev = "next" =>
                           /\ selectedTask' = tasks[((i + 1) % n) + 1]
                           /\ notes' = tasks[((i + 1) % n) + 1].notes
                     /\ last'.ev = "prev" =>
                           /\ selectedTask' = tasks[((i - 1 + n) % n) + 1]
                           /\ notes' = tasks[((i - 1 + n) % n) + 1].notes]_vars

\* A click on next with the last of three tasks selected has selected the first.
C26_Witness ==
    /\ last.ev = "next"
    /\ Len(tasks) = 3
    /\ selectedTask = tasks[1]

====
